---- MODULE Spec2Model ----
(***************************************************************************)
(* Detection evaluation core of cnn_by_density_map:                        *)
(*   - evaluate          (src/src/model/evaluation.py): optimal one-to-one *)
(*     matching of predicted centroids with ground-truth points and the    *)
(*     true/false positive/negative counts and ratio metrics;              *)
(*   - eval_metrics      (src/individual-detection/src/utils.py);          *)
(*   - ParameterStore, search, search_parameter                            *)
(*     (src/individual-detection/detector/search_parameter.py);            *)
(*   - the per-file loop of evaluation.py's __main__;                      *)
(*   - get_ground_truth (evaluation.py) with get_masked_index, the         *)
(*     annotator's save_coordinate, and the image and video loaders.       *)
(* Python indexes from 0, the model from 1.  Ratios are exact rationals    *)
(* <<numerator, denominator>>; Euclidean norms are fixed-point integers    *)
(* (Scale units per pixel).                                                *)
(***************************************************************************)
EXTENDS Integers, Sequences, FiniteSets, TLC

VARIABLES
    est_centroid_arr,   \* evaluate: predicted centroids, a sequence of points
    ground_truth_arr,   \* evaluate: ground-truth points, a sequence of points
    col_ind,            \* the column permutation linear_sum_assignment returns for this matrix
    dist_treshold,      \* evaluate: the threshold of the last call
    frame,              \* evaluate: the locals of the last call and what it returned
    cfg,                \* search_parameter: the configuration mapping
    dataset_path_df,    \* search_parameter: the dataset rows
    pc,                 \* search_parameter / search: the position in the code
    entry_idx,          \* search_parameter: position in cfg["search_params"].items()
    search_param,       \* search: the parameter name
    patterns,           \* search: the candidate values
    value_idx,          \* search: position in patterns
    row_idx,            \* search: position in dataset_path_df
    params_store,       \* search: the ParameterStore
    saved,              \* the result tables written, in the order written
    log,                \* logger.info records, in the order logged
    error,              \* the exception that ended the run, or "none"
    calls,              \* the calls made to clustering and inference, in the order made
    file_num,           \* evaluation.py __main__: the file loop's position
    lists,              \* evaluation.py __main__: accuracy_lst .. f_value_lst
    totals,             \* evaluation.py __main__: true_positive, false_positive, false_negative
    centroid_arr,       \* evaluation.py __main__: the centroids of the last file loaded
    main_pc,            \* evaluation.py __main__: running, done or raised
    out_file,           \* evaluation.py __main__: the row written to accuracy.csv
    coordinate,         \* save_coordinate: the annotated points, a sequence of (x, y)
    coordinate_file,    \* the coordinate file: whether it exists, and its lines
    mask_path,          \* get_ground_truth: the mask image, when one is given
    loader,             \* get_ground_truth: its locals and what it returned
    resource,           \* load_image / load_video: the file at the path
    loaded              \* load_image / load_video: the outcome of the call

evalVars == <<est_centroid_arr, ground_truth_arr, col_ind, dist_treshold, frame>>

searchVars == <<cfg, dataset_path_df, pc, entry_idx, search_param, patterns, value_idx,
                row_idx, params_store, saved, log, error, calls>>

mainVars == <<file_num, lists, totals, centroid_arr, main_pc, out_file>>

loadVars == <<coordinate, coordinate_file, mask_path, loader, resource, loaded>>

vars == <<evalVars, searchVars, mainVars, loadVars>>

----------------------------------------------------------------------------
(* Bounds and input sets *)

MaxLen == 2

Scale == 10 * 10

Points == {<<0, 0>>, <<1, 1>>, <<10, 10>>, <<4, 0>>, <<8, 0>>}

Thresholds == {1, 4, 5}

\* the coordinates of the files read by __main__
MainPoints == {<<0, 0>>, <<40, 0>>}

SeqsUpTo(S, k) == UNION {[1..m -> S] : m \in 0..k}

Max(a, b) == IF a >= b THEN a ELSE b

Min(a, b) == IF a <= b THEN a ELSE b

----------------------------------------------------------------------------
(* Exact rationals <<num, den>>, den > 0, in lowest terms *)

RECURSIVE GCD(_, _)
GCD(a, b) == IF b = 0 THEN a ELSE GCD(b, a % b)

Ratio(a, b) == LET g == GCD(a, b) IN <<a \div g, b \div g>>

RAdd(x, y) == Ratio(x[1] * y[2] + y[1] * x[2], x[2] * y[2])

RSub(x, y) == Ratio(x[1] * y[2] - y[1] * x[2], x[2] * y[2])

RMul(x, y) == Ratio(x[1] * y[1], x[2] * y[2])

RDiv(x, y) == Ratio(x[1] * y[2], x[2] * y[1])

RLeq(x, y) == x[1] * y[2] <= y[1] * x[2]

ZeroDivisionError == [error |-> "ZeroDivisionError"]

Raised(x) == "error" \in DOMAIN x

----------------------------------------------------------------------------
(* eval_metrics, src/individual-detection/src/utils.py *)

\* line 73 without the factor 2
f_measure_unscaled(recall, precision) == RDiv(RMul(recall, precision), RAdd(recall, precision))

\* line 73: (2 * recall * precision) / (recall + precision), the denominator not zero
f_measure_of(recall, precision) ==
    RDiv(RMul(<<2, 1>>, RMul(recall, precision)), RAdd(recall, precision))

\* f_measure is given as 0 when recall + precision is 0
eval_metrics_zero_f_measure(true_positive, false_positive, false_negative, sample_num) ==
    IF sample_num = 0 \/ true_positive + false_positive = 0
                      \/ true_positive + false_negative = 0
    THEN ZeroDivisionError
    ELSE LET accuracy == Ratio(true_positive, sample_num)
             precision == Ratio(true_positive, true_positive + false_positive)
             recall == Ratio(true_positive, true_positive + false_negative)
         IN [accuracy |-> accuracy, precision |-> precision, recall |-> recall,
             f_measure |-> IF RAdd(recall, precision)[1] = 0 THEN <<0, 1>>
                           ELSE f_measure_of(recall, precision)]

\* lines 70-74: Python's / on ints and floats raises ZeroDivisionError on a zero divisor
eval_metrics(true_positive, false_positive, false_negative, sample_num) ==
    IF sample_num = 0 \/ true_positive + false_positive = 0
                      \/ true_positive + false_negative = 0
    THEN ZeroDivisionError
    ELSE LET accuracy == Ratio(true_positive, sample_num)
             precision == Ratio(true_positive, true_positive + false_positive)
             recall == Ratio(true_positive, true_positive + false_negative)
         IN IF RAdd(recall, precision)[1] = 0
            THEN ZeroDivisionError
            ELSE [accuracy |-> accuracy, precision |-> precision, recall |-> recall,
                  f_measure |-> f_measure_of(recall, precision)]

----------------------------------------------------------------------------
(* evaluate, src/src/model/evaluation.py *)

RECURSIVE ISqrtIn(_, _, _)
ISqrtIn(k, lo, hi) ==
    IF lo >= hi THEN lo
    ELSE LET mid == (lo + hi + 1) \div 2
         IN IF mid * mid <= k THEN ISqrtIn(k, mid, hi) ELSE ISqrtIn(k, lo, mid - 1)

\* np.linalg.norm of a coordinate difference, in 1/Scale pixels
norm(dist_cord) ==
    LET sq == dist_cord[1] * dist_cord[1] + dist_cord[2] * dist_cord[2]
        bound == Max(dist_cord[1], -dist_cord[1]) + Max(dist_cord[2], -dist_cord[2])
    IN ISqrtIn(Scale * Scale * sq, 0, Scale * bound)

PointDist == [p \in Points \cup MainPoints |-> [q \in Points \cup MainPoints |-> norm(<<p[1] - q[1], p[2] - q[2]>>)]]

\* lines 57-64: the zero-padded n x n distance matrix
dist_matrix(est, gt) ==
    LET n == Max(Len(est), Len(gt))
    IN [i \in 1..n |-> [j \in 1..n |->
            IF i <= Len(est) /\ j <= Len(gt) THEN PointDist[est[i]][gt[j]] ELSE 0]]

Perms(n) == {f \in [1..n -> 1..n] : \A i, j \in 1..n : i # j => f[i] # f[j]}

RECURSIVE AssignedCost(_, _, _)
AssignedCost(D, col, i) == IF i = 0 THEN 0 ELSE D[i][col[i]] + AssignedCost(D, col, i - 1)

\* a greedy nearest-neighbour pairing: each row in turn takes its nearest free column
RECURSIVE GreedyCols(_, _, _, _)
GreedyCols(D, n, i, taken) ==
    IF i > n THEN {<<>>}
    ELSE LET free == (1..n) \ taken
             best == {j \in free : \A k \in free : D[i][j] <= D[i][k]}
         IN UNION {{<<j>> \o rest : rest \in GreedyCols(D, n, i + 1, taken \cup {j})} : j \in best}

greedy_assignment(D, n) == GreedyCols(D, n, 1, {})

\* line 67: scipy.optimize.linear_sum_assignment on an n x n matrix returns
\* row_ind = 0..n-1 and a column permutation of minimum total cost; every
\* minimum-cost permutation is a possible return value
linear_sum_assignment(D, n) ==
    LET perms == Perms(n)
        costs == {AssignedCost(D, col, n) : col \in perms}
        minimum == CHOOSE c \in costs : \A other \in costs : c <= other
    IN {col \in perms : AssignedCost(D, col, n) = minimum}

\* lines 68-76: the assigned pairs that survive the padding filter
match_indexes_of(est, gt, col) ==
    LET n == Max(Len(est), Len(gt))
        indexes == [i \in 1..n |-> <<i, col[i]>>]
        valid_lst == 1..Min(Len(est), Len(gt))
    IN IF Len(est) >= Len(gt)
       THEN SelectSeq(indexes, LAMBDA index : index[2] \in valid_lst)
       ELSE SelectSeq(indexes, LAMBDA index : index[1] \in valid_lst)

\* lines 78-84 with the two seeds exchanged
seed_swapped(est_num, gt_num) ==
    IF est_num > gt_num
    THEN [true_positive |-> 0, false_positive |-> 0, false_negative |-> est_num - gt_num]
    ELSE [true_positive |-> 0, false_positive |-> gt_num - est_num, false_negative |-> 0]

\* lines 78-84: the counts before the loop
seed_counts(est_num, gt_num) ==
    IF est_num > gt_num
    THEN [true_positive |-> 0, false_positive |-> est_num - gt_num, false_negative |-> 0]
    ELSE [true_positive |-> 0, false_positive |-> 0, false_negative |-> gt_num - est_num]

\* the comparison of line 89 with equality excluded
strictly_within(d, thr) == d < thr * Scale

\* the comparison of line 89 turned around
reversed_threshold(d, thr) == d >= thr * Scale

\* line 89: dist_matrix[pred_index][truth_index] <= dist_treshold
within_threshold(d, thr) == d <= thr * Scale

\* lines 86-93: the loop over match_indexes, from the seeded counts
RECURSIVE classify_pairs(_, _, _, _, _)
classify_pairs(D, match_indexes, thr, i, c) ==
    IF i > Len(match_indexes) THEN c
    ELSE LET pred_index == match_indexes[i][1]
             truth_index == match_indexes[i][2]
         IN IF within_threshold(D[pred_index][truth_index], thr)
            THEN classify_pairs(D, match_indexes, thr, i + 1,
                     [c EXCEPT !.true_positive = @ + 1])
            ELSE classify_pairs(D, match_indexes, thr, i + 1,
                     [c EXCEPT !.false_positive = @ + 1, !.false_negative = @ + 1])

\* lines 95-108: the ratios, or the ZeroDivisionError of the first zero denominator
evaluate_return(c, n) ==
    IF n = 0 \/ c.true_positive + c.false_positive = 0
             \/ c.true_positive + c.false_negative = 0
    THEN ZeroDivisionError
    ELSE LET accuracy == Ratio(c.true_positive, n)
             precision == Ratio(c.true_positive, c.true_positive + c.false_positive)
             recall == Ratio(c.true_positive, c.true_positive + c.false_negative)
         IN IF RAdd(recall, precision)[1] = 0
            THEN ZeroDivisionError
            ELSE [accuracy |-> accuracy, precision |-> precision, recall |-> recall,
                  f_value |-> RDiv(RMul(<<2, 1>>, RMul(recall, precision)), RAdd(recall, precision)),
                  true_positive |-> c.true_positive,
                  false_positive |-> c.false_positive,
                  false_negative |-> c.false_negative]

NotCalled == [pc |-> "not called"]

\* evaluate(est_centroid_arr, ground_truth_arr, dist_treshold), lines 43-108:
\* the locals after the loop and what the call returns
evaluate_frame(est, gt, col, thr) ==
    LET est_centroid_num == Len(est)
        ground_truth_num == Len(gt)
        n == Max(est_centroid_num, ground_truth_num)
        D == dist_matrix(est, gt)
        match_indexes == match_indexes_of(est, gt, col)
        c == classify_pairs(D, match_indexes, thr, 1,
                            seed_counts(est_centroid_num, ground_truth_num))
        ret == evaluate_return(c, n)
    IN [pc |-> IF Raised(ret) THEN "raised" ELSE "returned",
        n |-> n,
        match_indexes |-> match_indexes,
        true_positive |-> c.true_positive,
        false_positive |-> c.false_positive,
        false_negative |-> c.false_negative,
        ret |-> ret]

\* a call of evaluate on the point sets, with any threshold
evaluate(thr) ==
    /\ dist_treshold' = thr
    /\ frame' = evaluate_frame(est_centroid_arr, ground_truth_arr, col_ind, thr)
    /\ UNCHANGED <<est_centroid_arr, ground_truth_arr, col_ind>>
    /\ UNCHANGED <<searchVars, mainVars, loadVars>>

EvalInit ==
    /\ est_centroid_arr \in SeqsUpTo(Points, MaxLen)
    /\ ground_truth_arr \in SeqsUpTo(Points, MaxLen)
    /\ col_ind \in linear_sum_assignment(dist_matrix(est_centroid_arr, ground_truth_arr),
                                         Max(Len(est_centroid_arr), Len(ground_truth_arr)))
    /\ dist_treshold = 0
    /\ frame = NotCalled

\* evaluate is not in use
EvalIdle ==
    /\ est_centroid_arr = <<>>
    /\ ground_truth_arr = <<>>
    /\ col_ind = <<>>
    /\ dist_treshold = 0
    /\ frame = NotCalled

----------------------------------------------------------------------------
(* ParameterStore, search, search_parameter:                               *)
(* src/individual-detection/detector/search_parameter.py                   *)

MaxRows == 2

MaxPatterns == 2

MaxParams == 2

MetricNames == <<"accuracy", "precision", "recall", "f_measure">>

\* line 121: str2num, in key order
str2num == <<[name |-> "min", num |-> 0], [name |-> "q1", num |-> 25],
             [name |-> "med", num |-> 50], [name |-> "q3", num |-> 75],
             [name |-> "max", num |-> 100]>>

TimeColumn == "calculation_time_per_image_mean"

\* the columns search and store_percentile_results write
SchemaColumns ==
    <<"parameter", "sample_number", TimeColumn>>
    \o [i \in 1..4 |-> MetricNames[i] \o "_mean"]
    \o [i \in 1..20 |-> MetricNames[((i - 1) % 4) + 1] \o "_" \o str2num[((i - 1) \div 4) + 1].name]

Without(cols, dropped) == SelectSeq(cols, LAMBDA c : c \notin dropped)

\* cfg["cols_order"]: the whole schema, or the schema without some columns
ColsOrderChoices ==
    {SchemaColumns,
     Without(SchemaColumns, {TimeColumn}),
     Without(SchemaColumns, {"accuracy_q1", "f_measure_mean", "recall_max"}),
     Without(SchemaColumns, {"parameter"}),
     Without(SchemaColumns, {"sample_number"})}

ParamNames == {"threshold", "prediction_grid", "band_width"}

CandidateValues == {1, 2}

\* one entry of cfg["search_params"]: a list of candidates, or the same values in a tuple
ParamEntries(candidate_lists) ==
    {[name |-> nm, patterns |-> l, is_list |-> TRUE] : nm \in ParamNames, l \in candidate_lists}
    \cup {[name |-> nm, patterns |-> <<1, 2>>, is_list |-> FALSE] : nm \in ParamNames}

\* mappings: sequences of entries under distinct names, in mapping order
Mappings(entries, k) ==
    {m \in SeqsUpTo(entries, k) : \A i, j \in 1..Len(m) : i # j => m[i].name # m[j].name}

\* a dataset row: the sizes of the centroid set clustering finds in its density map
\* (when any cell survives the threshold) and of its ground-truth set
RowKinds == {[pred |-> 1, truth |-> 1], [pred |-> 2, truth |-> 1]}

\* time.time() - start_time, in ticks
CalculationTimes == {1}

NaN == <<0, 0>>

Config(cols, params) ==
    [cols_order |-> cols, search_params |-> params, skip_pixel_interval |-> 15,
     band_width |-> 25, fixed_cluster_thresh |-> 3, detection_threshold |-> 5]

Range(seq) == {seq[i] : i \in 1..Len(seq)}

RECURSIVE RSum(_, _)
RSum(l, i) == IF i = 0 THEN <<0, 1>> ELSE RAdd(l[i], RSum(l, i - 1))

\* np.mean of a list: nan (with a warning) for the empty list
np_mean(l) == IF l = <<>> THEN NaN ELSE RDiv(RSum(l, Len(l)), <<Len(l), 1>>)

RECURSIVE Insert(_, _)
Insert(sorted, x) ==
    IF sorted = <<>> THEN <<x>>
    ELSE IF RLeq(x, Head(sorted)) THEN <<x>> \o sorted
         ELSE <<Head(sorted)>> \o Insert(Tail(sorted), x)

RECURSIVE Sorted(_)
Sorted(l) == IF l = <<>> THEN <<>> ELSE Insert(Sorted(Tail(l)), Head(l))

\* np.percentile of a non-empty list: linear interpolation between order statistics
np_percentile(l, q) ==
    LET a == Sorted(l)
        pos == q * (Len(l) - 1)
        lo == (pos \div 100) + 1
        rem == pos % 100
    IN IF rem = 0 THEN a[lo]
       ELSE RAdd(a[lo], RMul(Ratio(rem, 100), RSub(a[lo + 1], a[lo])))

\* lines 32-46: ParameterStore.__init__
ParameterStore(cols_order) ==
    [result_dictlist |-> [key \in Range(cols_order) |-> <<>>],
     calculation_time_list |-> <<>>,
     accuracy_list |-> <<>>,
     precision_list |-> <<>>,
     recall_list |-> <<>>,
     f_measure_list |-> <<>>]

\* the per-image lists are not reset
keep_per_image_metrics(store) == store

\* lines 48-56: ParameterStore.init_per_image_metrics
init_per_image_metrics(store) ==
    [store EXCEPT !.calculation_time_list = <<>>, !.accuracy_list = <<>>,
                  !.precision_list = <<>>, !.recall_list = <<>>, !.f_measure_list = <<>>]

\* lines 58-79: ParameterStore.update_per_image_metrics
update_per_image_metrics(store, calculation_time, accuracy, precision, recall, f_measure) ==
    [store EXCEPT !.calculation_time_list = Append(@, calculation_time),
                  !.accuracy_list = Append(@, accuracy),
                  !.precision_list = Append(@, precision),
                  !.recall_list = Append(@, recall),
                  !.f_measure_list = Append(@, f_measure)]

Ok(store) == [store |-> store, error |-> "none"]

Fail(store, err) == [store |-> store, error |-> err]

\* np.percentile of an empty list is nan in current numpy and an IndexError in
\* older releases; empty_percentile is the one the installed library gives
EmptyPercentile == {"nan", "IndexError"}

\* line 96: key in self.result_dictlist.keys()
key_is_column(store, key) == key \in DOMAIN store.result_dictlist

\* the percentile branch is never taken: the method name does not match
update_summury_metrics_mean_only(store, key, summury_method, metrics_list, percentile_num, empty_percentile) ==
    IF ~key_is_column(store, key) THEN Ok(store)
    ELSE IF summury_method = "mean"
         THEN Ok([store EXCEPT !.result_dictlist[key] = Append(@, np_mean(metrics_list))])
    ELSE Ok(store)

\* lines 81-106: ParameterStore.update_summury_metrics
update_summury_metrics(store, key, summury_method, metrics_list, percentile_num, empty_percentile) ==
    IF ~key_is_column(store, key) THEN Ok(store)
    ELSE IF summury_method = "mean"
         THEN Ok([store EXCEPT !.result_dictlist[key] = Append(@, np_mean(metrics_list))])
    ELSE IF summury_method = "percentile"
         THEN IF metrics_list = <<>>
              THEN IF empty_percentile = "nan"
                   THEN Ok([store EXCEPT !.result_dictlist[key] = Append(@, NaN)])
                   ELSE Fail(store, "IndexError")
              ELSE Ok([store EXCEPT !.result_dictlist[key] =
                                        Append(@, np_percentile(metrics_list, percentile_num))])
    ELSE Ok(store)

MetricList(store, i) ==
    <<store.accuracy_list, store.precision_list, store.recall_list, store.f_measure_list>>[i]

\* lines 115-146: the calls of update_summury_metrics, in order
SummaryCalls ==
    [i \in 1..4 |-> [key |-> MetricNames[i] \o "_mean", method |-> "mean",
                     metric |-> i, num |-> 0]]
    \o [i \in 1..20 |->
          [key |-> MetricNames[((i - 1) % 4) + 1] \o "_" \o str2num[((i - 1) \div 4) + 1].name,
           method |-> "percentile",
           metric |-> ((i - 1) % 4) + 1,
           num |-> str2num[((i - 1) \div 4) + 1].num]]

RECURSIVE RunSummaryCalls(_, _, _)
RunSummaryCalls(res, i, empty_percentile) ==
    IF i > Len(SummaryCalls) \/ res.error # "none" THEN res
    ELSE LET call == SummaryCalls[i]
         IN RunSummaryCalls(
                update_summury_metrics(res.store, call.key, call.method,
                                       MetricList(res.store, call.metric), call.num,
                                       empty_percentile),
                i + 1, empty_percentile)

\* lines 108-146: ParameterStore.store_percentile_results; line 112 indexes
\* result_dictlist with the time column directly
store_percentile_results(store, empty_percentile) ==
    IF TimeColumn \notin DOMAIN store.result_dictlist
    THEN Fail(store, "KeyError")
    ELSE RunSummaryCalls(
             Ok([store EXCEPT !.result_dictlist[TimeColumn] =
                                  Append(@, np_mean(store.calculation_time_list))]),
             1, empty_percentile)

\* lines 148-156: ParameterStore.save_results; pd.DataFrame of columns of unequal
\* length is a ValueError
save_results(store, cols_order) ==
    IF \E a, b \in DOMAIN store.result_dictlist :
           Len(store.result_dictlist[a]) # Len(store.result_dictlist[b])
    THEN [error |-> "ValueError"]
    ELSE [error |-> "none", columns |-> cols_order, data |-> store.result_dictlist]

\* the rows of a written table
TableRows(table) ==
    IF table.columns = <<>> THEN 0 ELSE Len(table.data[table.columns[1]])

\* detector.evaluate.eval_detection: the counts and the sample size for n_pred
\* centroids and n_truth points of which `within` optimal pairs are inside the threshold
eval_detection(n_pred, n_truth, within) ==
    LET over == Min(n_pred, n_truth) - within
    IN [true_positive |-> within,
        false_positive |-> (IF n_pred > n_truth THEN n_pred - n_truth ELSE 0) + over,
        false_negative |-> (IF n_truth > n_pred THEN n_truth - n_pred ELSE 0) + over,
        sample_number |-> Max(n_pred, n_truth)]

\* lines 199-200 without the deep copy: param_cfg is cfg itself
aliased_config(config, param) ==
    [param_cfg |-> [config EXCEPT !.skip_pixel_interval = param],
     cfg |-> [config EXCEPT !.skip_pixel_interval = param]]

\* lines 199-200: param_cfg = copy.deepcopy(cfg); param_cfg["skip_pixel_interval"] = param
override_grid(config, param) ==
    [param_cfg |-> [config EXCEPT !.skip_pixel_interval = param], cfg |-> config]

\* a call of apply_clustering_to_density_map(density_map, band_width, thresh)
Clustering(bw, thresh) ==
    [fn |-> "apply_clustering_to_density_map", band_width |-> bw, thresh |-> thresh]

\* a call of predict_density_map(model, tf_session, image, param_cfg)
Inference(param_cfg) ==
    [fn |-> "predict_density_map", skip_pixel_interval |-> param_cfg.skip_pixel_interval]

\* the density map is predicted anew instead of loaded
threshold_calls_with_inference(config, param) ==
    <<Inference(config), Clustering(config.band_width, param)>>

\* lines 190-196: the calls of the "threshold" branch; the density map comes from np.load
threshold_calls(config, param) == <<Clustering(config.band_width, param)>>

\* lines 201-212: the calls of the "prediction_grid" branch
prediction_grid_calls(param_cfg) ==
    <<Inference(param_cfg), Clustering(param_cfg.band_width, param_cfg.fixed_cluster_thresh)>>

Raise(err) ==
    /\ error' = err
    /\ pc' = "raised"

\* the entry is searched without the assertion of lines 271-273
search_parameter_entry_unchecked ==
    /\ pc = "entry"
    /\ entry_idx <= Len(cfg.search_params)
    /\ LET e == cfg.search_params[entry_idx]
       IN /\ log' = log \o <<[msg |-> "Search Parameter", param |-> e.name],
                              [msg |-> "Search Patterns", param |-> e.name]>>
          /\ search_param' = e.name
          /\ patterns' = e.patterns
          /\ params_store' = ParameterStore(cfg.cols_order)
          /\ value_idx' = 1
          /\ pc' = "value"
    /\ UNCHANGED <<cfg, dataset_path_df, entry_idx, row_idx, saved, calls, error>>
    /\ UNCHANGED <<evalVars, mainVars, loadVars>>

\* lines 270-277: one entry of cfg["search_params"].items(): the assertion, the
\* two log records and the start of search (line 179)
search_parameter_entry ==
    /\ pc = "entry"
    /\ entry_idx <= Len(cfg.search_params)
    /\ LET e == cfg.search_params[entry_idx]
       IN IF ~e.is_list
          THEN /\ Raise("AssertionError")
               /\ UNCHANGED <<search_param, patterns, value_idx, params_store, log>>
          ELSE /\ log' = log \o <<[msg |-> "Search Parameter", param |-> e.name],
                                 [msg |-> "Search Patterns", param |-> e.name]>>
               /\ search_param' = e.name
               /\ patterns' = e.patterns
               /\ params_store' = ParameterStore(cfg.cols_order)
               /\ value_idx' = 1
               /\ pc' = "value"
               /\ UNCHANGED error
    /\ UNCHANGED <<cfg, dataset_path_df, entry_idx, row_idx, saved, calls>>
    /\ UNCHANGED <<evalVars, mainVars, loadVars>>

\* line 270: the mapping is exhausted, search_parameter returns
search_parameter_return ==
    /\ pc = "entry"
    /\ entry_idx > Len(cfg.search_params)
    /\ pc' = "returned"
    /\ UNCHANGED <<cfg, dataset_path_df, entry_idx, search_param, patterns, value_idx,
                   row_idx, params_store, saved, log, error, calls>>
    /\ UNCHANGED <<evalVars, mainVars, loadVars>>

\* lines 180-185: the next candidate value: its parameter and sample_number
\* entries, and the reset of the per-image lists
search_value ==
    /\ pc = "value"
    /\ value_idx <= Len(patterns)
    /\ LET param == patterns[value_idx]
           dictlist == params_store.result_dictlist
       IN IF "parameter" \notin DOMAIN dictlist
          THEN /\ Raise("KeyError")
               /\ UNCHANGED <<params_store, row_idx>>
          ELSE LET with_param == [params_store EXCEPT
                                      !.result_dictlist["parameter"] = Append(@, param)]
               IN IF "sample_number" \notin DOMAIN dictlist
                  THEN /\ Raise("KeyError")
                       /\ params_store' = with_param
                       /\ UNCHANGED row_idx
                  ELSE /\ params_store' = init_per_image_metrics(
                              [with_param EXCEPT !.result_dictlist["sample_number"] =
                                                     Append(@, Len(dataset_path_df))])
                       /\ row_idx' = 1
                       /\ pc' = "row"
                       /\ UNCHANGED error
    /\ UNCHANGED <<cfg, dataset_path_df, entry_idx, search_param, patterns, value_idx,
                   saved, log, calls>>
    /\ UNCHANGED <<evalVars, mainVars, loadVars>>

\* lines 217-241: ground truth, eval_detection, eval_metrics and the update of
\* the per-image lists, for a centroid set of n_pred points
EvaluateRow(n_pred, within, calculation_time) ==
    LET row == dataset_path_df[row_idx]
        d == eval_detection(n_pred, row.truth, within)
        m == eval_metrics(d.true_positive, d.false_positive, d.false_negative, d.sample_number)
    IN IF Raised(m)
       THEN /\ Raise("ZeroDivisionError")
            /\ UNCHANGED <<params_store, row_idx>>
       ELSE /\ params_store' = update_per_image_metrics(params_store, <<calculation_time, 1>>,
                                   m.accuracy, m.precision, m.recall, m.f_measure)
            /\ row_idx' = row_idx + 1
            /\ UNCHANGED <<pc, error>>

\* lines 186-241: one dataset row under the current candidate value
search_row ==
    /\ pc = "row"
    /\ row_idx <= Len(dataset_path_df)
    /\ LET param == patterns[value_idx]
           row == dataset_path_df[row_idx]
       IN \E n_pred \in {0, row.pred} :
          \E within \in {0, Min(n_pred, row.truth)} :
          \E calculation_time \in CalculationTimes :
            IF search_param = "threshold"
            THEN /\ calls' = calls \o threshold_calls(cfg, param)
                 /\ EvaluateRow(n_pred, within, calculation_time)
                 /\ UNCHANGED <<cfg, entry_idx, log>>
            ELSE IF search_param = "prediction_grid"
            THEN LET o == override_grid(cfg, param)
                 IN /\ cfg' = o.cfg
                    /\ calls' = calls \o prediction_grid_calls(o.param_cfg)
                    /\ EvaluateRow(n_pred, within, calculation_time)
                    /\ UNCHANGED <<entry_idx, log>>
            ELSE /\ log' = log \o <<[msg |-> "is not defined", param |-> search_param],
                                   [msg |-> "Completed", param |-> search_param]>>
                 /\ entry_idx' = entry_idx + 1
                 /\ pc' = "entry"
                 /\ UNCHANGED <<cfg, params_store, row_idx, error, calls>>
    /\ UNCHANGED <<dataset_path_df, search_param, patterns, value_idx, saved>>
    /\ UNCHANGED <<evalVars, mainVars, loadVars>>

\* line 244: every row is done, the candidate value is finalized
search_finalize ==
    /\ pc = "row"
    /\ row_idx > Len(dataset_path_df)
    /\ \E empty_percentile \in EmptyPercentile :
         LET res == store_percentile_results(params_store, empty_percentile)
         IN /\ params_store' = res.store
            /\ IF res.error = "none"
               THEN /\ value_idx' = value_idx + 1
                    /\ pc' = "value"
                    /\ UNCHANGED error
               ELSE /\ Raise(res.error)
                    /\ UNCHANGED value_idx
    /\ UNCHANGED <<cfg, dataset_path_df, entry_idx, search_param, patterns, row_idx,
                   saved, log, calls>>
    /\ UNCHANGED <<evalVars, mainVars, loadVars>>

\* the table is written whenever the value loop is at its head
search_save_early ==
    /\ pc = "value"
    /\ LET table == save_results(params_store, cfg.cols_order)
       IN /\ table.error = "none"
          /\ saved' = Append(saved, [param |-> search_param, table |-> table])
          /\ log' = log \o <<[msg |-> "Searched Result Saved", param |-> search_param],
                             [msg |-> "Completed", param |-> search_param]>>
          /\ entry_idx' = entry_idx + 1
          /\ pc' = "entry"
    /\ UNCHANGED <<cfg, dataset_path_df, search_param, patterns, value_idx, row_idx,
                   params_store, calls, error>>
    /\ UNCHANGED <<evalVars, mainVars, loadVars>>

\* lines 246-250 and 278: every candidate value is done: the table is written,
\* search returns and search_parameter logs the completion
search_save ==
    /\ pc = "value"
    /\ value_idx > Len(patterns)
    /\ LET table == save_results(params_store, cfg.cols_order)
       IN IF table.error # "none"
          THEN /\ Raise(table.error)
               /\ UNCHANGED <<saved, log, entry_idx>>
          ELSE /\ saved' = Append(saved, [param |-> search_param, table |-> table])
               /\ log' = log \o <<[msg |-> "Searched Result Saved", param |-> search_param],
                                  [msg |-> "Completed", param |-> search_param]>>
               /\ entry_idx' = entry_idx + 1
               /\ pc' = "entry"
               /\ UNCHANGED error
    /\ UNCHANGED <<cfg, dataset_path_df, search_param, patterns, value_idx, row_idx,
                   params_store, calls>>
    /\ UNCHANGED <<evalVars, mainVars, loadVars>>

SearchStart(config, dataset, at) ==
    /\ cfg = config
    /\ dataset_path_df = dataset
    /\ pc = at
    /\ entry_idx = 1
    /\ search_param = ""
    /\ patterns = <<>>
    /\ value_idx = 1
    /\ row_idx = 1
    /\ params_store = ParameterStore(config.cols_order)
    /\ saved = <<>>
    /\ log = <<>>
    /\ error = "none"
    /\ calls = <<>>

\* search_parameter is entered with a mapping of one entry and any column list
\* and dataset, or with a mapping of up to MaxParams entries, the whole schema
\* and a dataset of like rows
SearchInit ==
    \/ \E cols \in ColsOrderChoices :
       \E e \in ParamEntries(SeqsUpTo(CandidateValues, MaxPatterns)) :
       \E dataset \in SeqsUpTo(RowKinds, MaxRows) :
          SearchStart(Config(cols, <<e>>), dataset, "entry")
    \/ \E params \in Mappings(ParamEntries({[i \in 1..m |-> i] : m \in 0..MaxPatterns}), MaxParams) :
       \E rows \in 0..MaxRows :
          SearchStart(Config(SchemaColumns, params),
                      [i \in 1..rows |-> [pred |-> 1, truth |-> 1]], "entry")

\* search_parameter is not in use
SearchIdle == SearchStart(Config(<<>>, <<>>), <<>>, "idle")

SearchNext ==
    \/ search_parameter_entry
    \/ search_parameter_return
    \/ search_value
    \/ search_row
    \/ search_finalize
    \/ search_save

----------------------------------------------------------------------------
(* The file loop of __main__, src/src/model/evaluation.py lines 122-163 *)

MaxFiles == 2

band_width == 25

MainLists(acc, prec, rec, f) ==
    [accuracy_lst |-> acc, precision_lst |-> prec, recall_lst |-> rec, f_value_lst |-> f]

\* lines 135-150: one file of the loop: the centroids are loaded; without any,
\* 0.0 is appended to the four lists; with some, the ground truth is loaded,
\* evaluate is called and its values are accumulated.  An exception of evaluate
\* is not caught and ends the script.
main_file ==
    /\ main_pc = "running"
    /\ file_num <= MaxFiles
    /\ \E c \in SeqsUpTo(MainPoints, MaxLen) :
         /\ centroid_arr' = c
         /\ IF Len(c) = 0
            THEN /\ lists' = MainLists(Append(lists.accuracy_lst, <<0, 1>>),
                                       Append(lists.precision_lst, <<0, 1>>),
                                       Append(lists.recall_lst, <<0, 1>>),
                                       Append(lists.f_value_lst, <<0, 1>>))
                 /\ file_num' = file_num + 1
                 /\ UNCHANGED <<totals, main_pc>>
            ELSE \E gt \in SeqsUpTo(MainPoints, MaxLen) :
                 \E col \in linear_sum_assignment(dist_matrix(c, gt), Max(Len(c), Len(gt))) :
                    LET f == evaluate_frame(c, gt, col, band_width)
                    IN IF f.pc = "raised"
                       THEN /\ main_pc' = "raised"
                            /\ UNCHANGED <<lists, totals, file_num>>
                       ELSE /\ totals' = [true_positive |-> totals.true_positive + f.ret.true_positive,
                                          false_positive |-> totals.false_positive + f.ret.false_positive,
                                          false_negative |-> totals.false_negative + f.ret.false_negative]
                            /\ lists' = MainLists(Append(lists.accuracy_lst, f.ret.accuracy),
                                                  Append(lists.precision_lst, f.ret.precision),
                                                  Append(lists.recall_lst, f.ret.recall),
                                                  Append(lists.f_value_lst, f.ret.f_value))
                            /\ file_num' = file_num + 1
                            /\ UNCHANGED main_pc
    /\ UNCHANGED out_file
    /\ UNCHANGED <<evalVars, searchVars, loadVars>>

\* lines 152-163: after the last file the totals are printed and accuracy_lst is
\* written to accuracy.csv
main_finish ==
    /\ main_pc = "running"
    /\ file_num > MaxFiles
    /\ main_pc' = IF lists.accuracy_lst = <<>> THEN "raised" ELSE "done"
    /\ out_file' = IF lists.accuracy_lst = <<>> THEN out_file ELSE <<lists.accuracy_lst>>
    /\ UNCHANGED <<file_num, lists, totals, centroid_arr>>
    /\ UNCHANGED <<evalVars, searchVars, loadVars>>

MainStart(at) ==
    /\ file_num = 1
    /\ lists = MainLists(<<>>, <<>>, <<>>, <<>>)
    /\ totals = [true_positive |-> 0, false_positive |-> 0, false_negative |-> 0]
    /\ centroid_arr = <<>>
    /\ main_pc = at
    /\ out_file = <<>>

MainInit == MainStart("running")

\* the script is not in use
MainIdle == MainStart("idle")

MainNext == main_file \/ main_finish

----------------------------------------------------------------------------
(* The ground-truth loader and the resource loaders:                       *)
(*   get_ground_truth   src/src/model/evaluation.py                         *)
(*   get_masked_index   src/individual-detection/src/utils.py               *)
(*   save_coordinate, load_image, load_video                                *)
(*                      src/density-annotator/annotator/utils.py            *)
(*   load_image         src/individual-detection/src/utils.py               *)
(* Pixel rows and columns are numbered from 0, as in the code.             *)

MaxCoords == 3

\* the rows and columns of the mask image
MaskRows == 0..1

MaskCols == 0..1

\* annotated points (x, y); x = 2 is one pixel to the right of the mask
LoadPoints == {<<0, 0>>, <<1, 0>>, <<1, 1>>, <<2, 1>>}

\* cv2.imread(mask_path) in grey levels
MaskImages == [MaskRows -> [MaskCols -> {0, 255}]]

NoMask == [given |-> FALSE]

Mask(image) == [given |-> TRUE, image |-> image]

\* lines 114-123 of annotator/utils.py: np.savetxt(path, coordinate,
\* delimiter=",", fmt="%d") writes one line "x,y" per point and no header line
savetxt(points) == [exists |-> TRUE, lines |-> [i \in 1..Len(points) |-> points[i]]]

\* pd.read_csv(path): the first line names the columns, the lines after it are
\* the rows; a missing file and a file without any line are errors
read_csv(file) ==
    IF ~file.exists THEN [error |-> "FileNotFoundError"]
    ELSE IF file.lines = <<>> THEN [error |-> "EmptyDataError"]
    ELSE [columns |-> Head(file.lines), rows |-> Tail(file.lines)]

\* the pixels of the mask in the order np.where scans them: row by row
ScanOrder ==
    LET w == Cardinality(MaskCols)
    IN [k \in 1..(Cardinality(MaskRows) * w) |-> <<(k - 1) \div w, (k - 1) % w>>]

\* lines 163-191 of utils.py: the indexes of the pixels with mask > 0
get_masked_index(image, horizontal_flip) ==
    LET mask == IF horizontal_flip
                THEN [h \in MaskRows |-> [w \in MaskCols |->
                          image[h][Cardinality(MaskCols) - 1 - w]]]
                ELSE image
        index == SelectSeq(ScanOrder, LAMBDA c : mask[c[1]][c[2]] > 0)
    IN [index_h |-> [k \in 1..Len(index) |-> index[k][1]],
        index_w |-> [k \in 1..Len(index) |-> index[k][2]]]

\* np.where(arr == value): the positions that hold the value
np_where(arr, value) == {k \in 1..Len(arr) : arr[k] = value}

\* the point is kept when its column is found, whatever its row
intersect_columns_only(index_w, index_h) == index_w

\* line 35: np.intersect1d(index_w, index_h)
intersect1d(index_w, index_h) == index_w \cap index_h

\* the retained points in the order of the mask's index sequence
RECURSIVE mask_scan_filter(_, _, _, _)
mask_scan_filter(arr, valid_h, valid_w, k) ==
    IF k > Len(valid_w) THEN <<>>
    ELSE SelectSeq(arr, LAMBDA p : p = <<valid_w[k], valid_h[k]>>)
         \o mask_scan_filter(arr, valid_h, valid_w, k + 1)

\* lines 30-40: the loop over the rows of ground_truth_arr, from row i on
RECURSIVE valid_ground_truth(_, _, _, _)
valid_ground_truth(arr, valid_h, valid_w, i) ==
    IF i > Len(arr) THEN <<>>
    ELSE LET index_w == np_where(valid_w, arr[i][1])
             index_h == np_where(valid_h, arr[i][2])
             intersect == intersect1d(index_w, index_h)
             rest == valid_ground_truth(arr, valid_h, valid_w, i + 1)
         IN IF Cardinality(intersect) = 1
            THEN LET k == CHOOSE j \in intersect : TRUE
                 IN <<<<valid_w[k], valid_h[k]>>>> \o rest
            ELSE rest

LoaderNotCalled == [pc |-> "not called"]

\* get_ground_truth(ground_truth_path, mask_path), lines 12-40
get_ground_truth_frame(file, mask) ==
    LET table == read_csv(file)
    IN IF Raised(table)
       THEN [pc |-> "raised", error |-> table.error]
       ELSE IF ~mask.given
       THEN [pc |-> "returned", ground_truth_arr |-> table.rows, ret |-> table.rows]
       ELSE LET valid == get_masked_index(mask.image, FALSE)
            IN [pc |-> "returned", ground_truth_arr |-> table.rows,
                ret |-> valid_ground_truth(table.rows, valid.index_h, valid.index_w, 1)]

\* the annotator saves the points of a frame
save_coordinate ==
    /\ loader.pc = "not called"
    /\ ~coordinate_file.exists
    /\ coordinate_file' = savetxt(coordinate)
    /\ UNCHANGED <<coordinate, mask_path, loader, resource, loaded>>
    /\ UNCHANGED <<evalVars, searchVars, mainVars>>

\* the loader is called on the path, with or without the mask
get_ground_truth ==
    /\ loader.pc = "not called"
    /\ loader' = get_ground_truth_frame(coordinate_file, mask_path)
    /\ UNCHANGED <<coordinate, coordinate_file, mask_path, resource, loaded>>
    /\ UNCHANGED <<evalVars, searchVars, mainVars>>

\* annotator/utils.py lines 68-82: load_image
annotator_load_image ==
    /\ loaded.pc = "not called"
    /\ resource.kind = "image"
    /\ loaded' = IF resource.readable
                 THEN [pc |-> "returned", by |-> "annotator.load_image"]
                 ELSE [pc |-> "raised", by |-> "annotator.load_image",
                       error |-> "LoadImageError"]
    /\ UNCHANGED <<coordinate, coordinate_file, mask_path, loader, resource>>
    /\ UNCHANGED <<evalVars, searchVars, mainVars>>

\* annotator/utils.py lines 85-99: load_video
annotator_load_video ==
    /\ loaded.pc = "not called"
    /\ resource.kind = "video"
    /\ loaded' = IF resource.readable
                 THEN [pc |-> "returned", by |-> "annotator.load_video"]
                 ELSE [pc |-> "raised", by |-> "annotator.load_video",
                       error |-> "LoadVideoError"]
    /\ UNCHANGED <<coordinate, coordinate_file, mask_path, loader, resource>>
    /\ UNCHANGED <<evalVars, searchVars, mainVars>>

\* individual-detection/src/utils.py lines 343-357: load_image logs the error
\* and calls sys.exit(1)
detector_load_image ==
    /\ loaded.pc = "not called"
    /\ resource.kind = "image"
    /\ loaded' = IF resource.readable
                 THEN [pc |-> "returned", by |-> "utils.load_image"]
                 ELSE [pc |-> "exited", by |-> "utils.load_image", error |-> "SystemExit"]
    /\ UNCHANGED <<coordinate, coordinate_file, mask_path, loader, resource>>
    /\ UNCHANGED <<evalVars, searchVars, mainVars>>

NoResource == [kind |-> "none", readable |-> FALSE]

LoadStart(points, mask, file) ==
    /\ coordinate = points
    /\ coordinate_file = [exists |-> FALSE, lines |-> <<>>]
    /\ mask_path = mask
    /\ loader = LoaderNotCalled
    /\ resource = file
    /\ loaded = LoaderNotCalled

\* either points to save and load, with or without a mask, or an image or a
\* video file to load, readable or not
LoadInit ==
    \/ \E points \in SeqsUpTo(LoadPoints, MaxCoords) :
       \E mask \in {NoMask} \cup {Mask(image) : image \in MaskImages} :
          LoadStart(points, mask, NoResource)
    \/ \E kind \in {"image", "video"} : \E readable \in BOOLEAN :
          LoadStart(<<>>, NoMask, [kind |-> kind, readable |-> readable])

\* the loaders are not in use
LoadIdle == LoadStart(<<>>, NoMask, NoResource)

LoadNext ==
    \/ save_coordinate
    \/ get_ground_truth
    \/ annotator_load_image
    \/ annotator_load_video
    \/ detector_load_image

----------------------------------------------------------------------------
(* Specifications *)

Init == EvalInit /\ SearchIdle /\ MainIdle /\ LoadIdle

Next == \E thr \in Thresholds : evaluate(thr)

Spec == Init /\ [][Next]_vars

InitSearch == EvalIdle /\ SearchInit /\ MainIdle /\ LoadIdle

SpecSearch == InitSearch /\ [][SearchNext]_vars

InitMain == EvalIdle /\ SearchIdle /\ MainInit /\ LoadIdle

SpecMain == InitMain /\ [][MainNext]_vars

InitLoad == EvalIdle /\ SearchIdle /\ MainIdle /\ LoadInit

SpecLoad == InitLoad /\ [][LoadNext]_vars

----------------------------------------------------------------------------
(* Properties of evaluate, checked under Spec *)

Called == frame.pc # "not called"

KeptCost(D, match_indexes) ==
    LET RECURSIVE Sum(_)
        Sum(i) == IF i = 0 THEN 0
                  ELSE D[match_indexes[i][1]][match_indexes[i][2]] + Sum(i - 1)
    IN Sum(Len(match_indexes))

Injections(m, k) == {f \in [1..m -> 1..k] : \A i, j \in 1..m : i # j => f[i] # f[j]}

\* the total distance of the pairing f of the smaller set into the larger one
PairingCost(est, gt, f) ==
    LET m == Min(Len(est), Len(gt))
        RECURSIVE Sum(_)
        Sum(i) == IF i = 0 THEN 0
                  ELSE (IF Len(est) >= Len(gt) THEN PointDist[est[f[i]]][gt[i]]
                                               ELSE PointDist[est[i]][gt[f[i]]]) + Sum(i - 1)
    IN Sum(m)

CountsAt(thr) ==
    classify_pairs(dist_matrix(est_centroid_arr, ground_truth_arr),
                   match_indexes_of(est_centroid_arr, ground_truth_arr, col_ind), thr, 1,
                   seed_counts(Len(est_centroid_arr), Len(ground_truth_arr)))

\* C1: count conservation: whatever the point sets and the threshold, the counts
\* of a call satisfy true_positive + false_negative = |truth| and
\* true_positive + false_positive = |predicted|.
C1_CountConservation ==
    Called =>
        /\ frame.true_positive + frame.false_negative = Len(ground_truth_arr)
        /\ frame.true_positive + frame.false_positive = Len(est_centroid_arr)

C1_Witness ==
    /\ frame.pc = "returned"
    /\ Len(est_centroid_arr) > Len(ground_truth_arr)
    /\ frame.false_positive = Len(est_centroid_arr) - Len(ground_truth_arr)
    /\ frame.ret.true_positive = Len(ground_truth_arr)

\* C2: matching optimality: the total distance of the kept (non-padding) pairs is
\* at most the total distance of every one-to-one pairing of the smaller set
\* into the larger set.
C2_MatchingOptimality ==
    Called =>
        \A f \in Injections(Min(Len(est_centroid_arr), Len(ground_truth_arr)),
                            Max(Len(est_centroid_arr), Len(ground_truth_arr))) :
            KeptCost(dist_matrix(est_centroid_arr, ground_truth_arr), frame.match_indexes)
                <= PairingCost(est_centroid_arr, ground_truth_arr, f)

\* a call on which the nearest-neighbour pairing costs strictly more than the kept pairs
C2_Witness ==
    /\ Called
    /\ LET D == dist_matrix(est_centroid_arr, ground_truth_arr)
       IN \E g \in greedy_assignment(D, frame.n) :
            KeptCost(D, match_indexes_of(est_centroid_arr, ground_truth_arr, g))
                > KeptCost(D, frame.match_indexes)

\* C3: threshold monotonicity: on the same point sets a call with a threshold at
\* least as large never has fewer true positives, nor more false positives or
\* false negatives.
C3_ThresholdMonotonicity ==
    [][(Called /\ dist_treshold <= dist_treshold') =>
          /\ frame'.true_positive >= frame.true_positive
          /\ frame'.false_positive <= frame.false_positive
          /\ frame'.false_negative <= frame.false_negative]_vars

\* a returned call whose true positives exceed those of a smaller threshold
C3_Witness ==
    /\ frame.pc = "returned"
    /\ \E t \in Thresholds :
         /\ t < dist_treshold
         /\ CountsAt(t).true_positive < frame.ret.true_positive
         /\ CountsAt(t).true_positive > 0

\* C5: with both sets empty the call completes and returns n = 0 and
\* true_positive = false_positive = false_negative = 0.
C5_EmptyInputsReturn ==
    (Called /\ est_centroid_arr = <<>> /\ ground_truth_arr = <<>>) =>
        /\ frame.pc = "returned"
        /\ frame.n = 0
        /\ frame.ret.true_positive = 0
        /\ frame.ret.false_positive = 0
        /\ frame.ret.false_negative = 0

ScenarioCalled ==
    /\ Called
    /\ est_centroid_arr = <<<<0, 0>>, <<10, 10>>>>
    /\ ground_truth_arr = <<<<1, 1>>>>
    /\ dist_treshold = 5

\* C6: predicted = [(0,0),(10,10)], truth = [(1,1)], threshold 5: (0,0) is paired
\* with (1,1); true_positive = 1, false_positive = 1, false_negative = 0, n = 2;
\* accuracy = 1/2, precision = 1/2, recall = 1, f_measure = 2/3.
C6_WorkedScenario ==
    ScenarioCalled =>
        /\ frame.match_indexes = <<<<1, 1>>>>
        /\ frame.n = 2
        /\ frame.pc = "returned"
        /\ frame.ret.true_positive = 1
        /\ frame.ret.false_positive = 1
        /\ frame.ret.false_negative = 0
        /\ frame.ret.accuracy = <<1, 2>>
        /\ frame.ret.precision = <<1, 2>>
        /\ frame.ret.recall = <<1, 1>>
        /\ frame.ret.f_value = <<2, 3>>
        /\ eval_metrics(frame.true_positive, frame.false_positive,
                        frame.false_negative, frame.n)
             = [accuracy |-> <<1, 2>>, precision |-> <<1, 2>>,
                recall |-> <<1, 1>>, f_measure |-> <<2, 3>>]

C6_Witness == ScenarioCalled /\ frame.pc = "returned"

\* the surviving pairs of the last call whose distance is at most the threshold
PairsWithin ==
    LET D == dist_matrix(est_centroid_arr, ground_truth_arr)
    IN {i \in 1..Len(frame.match_indexes) :
           D[frame.match_indexes[i][1]][frame.match_indexes[i][2]] <= dist_treshold * Scale}

OptimalAssignments ==
    linear_sum_assignment(dist_matrix(est_centroid_arr, ground_truth_arr),
                          Max(Len(est_centroid_arr), Len(ground_truth_arr)))

\* the counts of a call at the last threshold had the solver returned col
CountsUnder(col) ==
    classify_pairs(dist_matrix(est_centroid_arr, ground_truth_arr),
                   match_indexes_of(est_centroid_arr, ground_truth_arr, col), dist_treshold, 1,
                   seed_counts(Len(est_centroid_arr), Len(ground_truth_arr)))

\* C20 as claimed: for fixed point sets and threshold, every minimum-total-distance
\* assignment of the padded matrix, ties included, yields the same triple
\* (true_positive, false_positive, false_negative).
C20_TripleSameForEveryOptimum ==
    frame.pc = "returned" =>
        \A col \in OptimalAssignments :
            /\ CountsUnder(col).true_positive = frame.true_positive
            /\ CountsUnder(col).false_positive = frame.false_positive
            /\ CountsUnder(col).false_negative = frame.false_negative

\* C20 as amended: every minimum-total-distance assignment yields the same
\* number of surviving pairs, the same total distance over them and the same
\* sums true_positive + false_positive and true_positive + false_negative; the
\* triple itself is that of the assignment the solver returns, and tied optima
\* may trade a true positive for a false positive and a false negative.
C20_OptimaAgreeOnCostAndSums ==
    Called =>
        \A D \in {dist_matrix(est_centroid_arr, ground_truth_arr)} :
        \A col \in linear_sum_assignment(D, frame.n) :
        \A kept \in {match_indexes_of(est_centroid_arr, ground_truth_arr, col)} :
        \A c \in {classify_pairs(D, kept, dist_treshold, 1,
                                  seed_counts(Len(est_centroid_arr), Len(ground_truth_arr)))} :
            /\ Len(kept) = Len(frame.match_indexes)
            /\ KeptCost(D, kept) = KeptCost(D, frame.match_indexes)
            /\ c.true_positive + c.false_positive
                   = frame.true_positive + frame.false_positive
            /\ c.true_positive + c.false_negative
                   = frame.true_positive + frame.false_negative
            /\ c.false_positive - frame.false_positive
                   = frame.true_positive - c.true_positive

\* two optima tie (4 + 4 = 8 + 0) and differ in the triple at threshold 5
C20_Witness ==
    /\ frame.pc = "returned"
    /\ est_centroid_arr = <<<<0, 0>>, <<4, 0>>>>
    /\ ground_truth_arr = <<<<4, 0>>, <<8, 0>>>>
    /\ dist_treshold = 5
    /\ \E col \in OptimalAssignments :
         CountsUnder(col).true_positive # frame.true_positive

InUnitInterval(x) == RLeq(<<0, 1>>, x) /\ RLeq(x, <<1, 1>>)

\* C21: on the counts of the matcher (true_positive + false_positive =
\* |predicted|, true_positive + false_negative = |truth|, n the larger size)
\* eval_metrics succeeds, with four values in [0, 1], if and only if
\* true_positive > 0; with true_positive = 0 some denominator is zero and the
\* computation fails, also when n > 0.  The ratios of evaluate (lines 95-98)
\* fail in the same calls.
C21_MetricsSucceedIffTruePositive ==
    Called =>
        \A m \in {eval_metrics(frame.true_positive, frame.false_positive,
                               frame.false_negative, frame.n)} :
            /\ frame.true_positive > 0 <=> ~Raised(m)
            /\ frame.true_positive > 0 <=> frame.pc = "returned"
            /\ ~Raised(m) =>
                   /\ InUnitInterval(m.accuracy)
                   /\ InUnitInterval(m.precision)
                   /\ InUnitInterval(m.recall)
                   /\ InUnitInterval(m.f_measure)

\* both sets have points, every pair is beyond the threshold, and the metrics fail
C21_Witness ==
    /\ Called
    /\ Len(est_centroid_arr) = 2
    /\ Len(ground_truth_arr) = 1
    /\ frame.true_positive = 0
    /\ frame.false_positive = 2
    /\ frame.false_negative = 1
    /\ Raised(eval_metrics(frame.true_positive, frame.false_positive,
                           frame.false_negative, frame.n))

----------------------------------------------------------------------------
(* Properties of the file loop of __main__, checked under SpecMain *)

\* C4: a frame with a zero denominator is a failure, never a substituted 0: a
\* file without centroids has true_positive + false_positive = 0, so processing
\* it appends nothing to the four lists.
C4_ZeroDenominatorAppendsNothing ==
    [][(file_num' = file_num + 1 /\ Len(centroid_arr') = 0) =>
          /\ Len(lists'.accuracy_lst) = Len(lists.accuracy_lst)
          /\ Len(lists'.precision_lst) = Len(lists.precision_lst)
          /\ Len(lists'.recall_lst) = Len(lists.recall_lst)
          /\ Len(lists'.f_value_lst) = Len(lists.f_value_lst)]_vars

----------------------------------------------------------------------------
(* Properties of the loaders, checked under SpecLoad *)

\* the pixel (row = y, col = x) of the point is a pixel of the mask and not zero
InValidMask(p) ==
    /\ p[2] \in MaskRows
    /\ p[1] \in MaskCols
    /\ mask_path.image[p[2]][p[1]] > 0

LoadedWithMask == loader.pc = "returned" /\ mask_path.given

\* C13: mask intersection exactness: with a mask, a point (x, y) of the rows
\* read is in the loader's output if and only if (row = y, col = x) is in the
\* ValidMask index set; a point one pixel outside the mask is dropped, and the
\* call does not fail for it.
C13_MaskIntersectionExact ==
    /\ LoadedWithMask =>
          \A p \in LoadPoints :
              p \in Range(loader.ret) <=>
                  (p \in Range(loader.ground_truth_arr) /\ InValidMask(p))
    /\ (loader.pc = "raised" /\ mask_path.given) =>
          (~coordinate_file.exists \/ coordinate_file.lines = <<>>)

\* of the rows (1,0), (2,1) the first is on a mask pixel and kept, the second is
\* one pixel to the right of the mask pixel (1,1) and dropped; (row 0, col 1) is
\* in the mask and (row 1, col 0) is not
C13_Witness ==
    /\ LoadedWithMask
    /\ loader.ground_truth_arr = <<<<1, 0>>, <<2, 1>>>>
    /\ mask_path.image[0][1] > 0
    /\ mask_path.image[1][0] = 0
    /\ mask_path.image[1][1] > 0
    /\ loader.ret = <<<<1, 0>>>>

\* C14: without a mask the loader returns every row of the coordinate file
\* written by save_coordinate, in file order: as many points as the file has
\* rows, the i-th point being the i-th row (stated for files of at least one row).
C14_EveryFileRowReturned ==
    (loader.pc # "not called" /\ ~mask_path.given /\ coordinate_file.exists
                             /\ coordinate_file.lines # <<>>) =>
        /\ loader.pc = "returned"
        /\ Len(loader.ret) = Len(coordinate_file.lines)
        /\ \A i \in 1..Len(coordinate_file.lines) : loader.ret[i] = coordinate_file.lines[i]

\* the place of the point's pixel in the mask's index sequence
ScanPosition(p) == CHOOSE k \in 1..Len(ScanOrder) : ScanOrder[k] = <<p[2], p[1]>>

\* C15 as claimed: with a mask, the retained points come in the order of the
\* mask's index sequence.
C15_MaskScanOrder ==
    LoadedWithMask =>
        \A i, j \in 1..Len(loader.ret) :
            i < j => ScanPosition(loader.ret[i]) <= ScanPosition(loader.ret[j])

\* C15 as amended: with a mask, the loader returns the rows read whose pixel is
\* in the mask, in the order of the rows and as often as they occur; the order
\* of the mask's index sequence plays no part.
C15_FileOrderKept ==
    LoadedWithMask => loader.ret = SelectSeq(loader.ground_truth_arr, InValidMask)

\* two rows kept against the order of the mask's index sequence
C15_Witness ==
    /\ LoadedWithMask
    /\ loader.ground_truth_arr = <<<<1, 1>>, <<0, 0>>>>
    /\ loader.ret = <<<<1, 1>>, <<0, 0>>>>

\* C16: a resource that cannot be loaded is reported to the caller as an error
\* named after the load failure, never as a generic error or an exit of the
\* process (stated for the image and video loaders).
C16_NamedLoadFailure ==
    /\ loaded.pc # "exited"
    /\ loaded.pc = "raised" => loaded.error \in {"LoadImageError", "LoadVideoError"}

----------------------------------------------------------------------------
(* Properties of search and search_parameter, checked under SpecSearch *)

NewCalls == {calls'[i] : i \in (Len(calls) + 1)..Len(calls')}

InRow(name) == pc = "row" /\ row_idx <= Len(dataset_path_df) /\ search_param = name

Recognized(name) == name \in {"threshold", "prediction_grid"}

\* the candidate values of the mapping entry with the given name
PatternsOf(name) ==
    LET i == CHOOSE k \in 1..Len(cfg.search_params) : cfg.search_params[k].name = name
    IN cfg.search_params[i].patterns

SavedNames == [i \in 1..Len(saved) |-> saved[i].param]

\* positions of the mapping whose entry has a table written
Position(name) == CHOOSE k \in 1..Len(cfg.search_params) : cfg.search_params[k].name = name

Finalizing == pc = "row" /\ row_idx > Len(dataset_path_df)

\* C7: during store_percentile_results a summary column that is not in
\* cols_order is skipped silently: finalizing a candidate value raises no
\* KeyError and creates no entry for a column outside cols_order.
C7_MissingColumnsSkipped ==
    [][Finalizing =>
          /\ error' # "KeyError"
          /\ DOMAIN params_store'.result_dictlist = Range(cfg.cols_order)]_vars

\* C8: every table written has one row per candidate value, in list order, with
\* parameter = the candidate value and sample_number = the number of dataset
\* rows; and whenever a candidate value has been finalized every column list
\* has as many entries as values processed so far.
C8_ResultTableShape ==
    /\ \A i \in 1..Len(saved) :
         LET t == saved[i].table
             values == PatternsOf(saved[i].param)
         IN /\ t.columns = cfg.cols_order
            /\ \A c \in Range(t.columns) : Len(t.data[c]) = Len(values)
            /\ "parameter" \in Range(t.columns) => t.data["parameter"] = values
            /\ "sample_number" \in Range(t.columns) =>
                   t.data["sample_number"] = [k \in 1..Len(values) |-> Len(dataset_path_df)]
    /\ pc = "value" =>
         \A c \in DOMAIN params_store.result_dictlist :
            Len(params_store.result_dictlist[c]) = value_idx - 1

\* a two-row table of a recognized parameter over a two-row dataset, the
\* candidates not in increasing order
C8_Witness ==
    /\ Len(saved) = 1
    /\ Recognized(saved[1].param)
    /\ saved[1].table.columns = SchemaColumns
    /\ saved[1].table.data["parameter"] = <<2, 1>>
    /\ saved[1].table.data["sample_number"] = <<2, 2>>
    /\ saved[1].table.data["accuracy_mean"] = <<<<3, 4>>, <<3, 4>>>>

\* C9: for a name other than "threshold" and "prediction_grid", search logs the
\* unrecognized mode and returns without raising, whatever the dataset and the
\* candidate list.
C9_UnrecognizedLogsAndReturns ==
    /\ (pc = "raised" /\ error # "AssertionError") => Recognized(search_param)
    /\ \A i \in 1..Len(log) :
         (log[i].msg = "Completed" /\ ~Recognized(log[i].param)) =>
             \E j \in 1..(i - 1) :
                 log[j].msg = "is not defined" /\ log[j].param = log[i].param

\* C10: the entries of the mapping are processed in mapping order, each
\* recognized one writing its own table; an entry whose candidates are not a
\* list raises the assertion before anything of that entry is evaluated, so it
\* and the later entries write no table while the earlier tables are written.
C10_SequentialAndValidated ==
    /\ \A i, j \in 1..Len(saved) :
         i < j => Position(saved[i].param) < Position(saved[j].param)
    /\ \A k \in 1..Len(cfg.search_params) :
         LET e == cfg.search_params[k]
         IN /\ (Recognized(e.name) /\ (k < entry_idx \/ pc = "returned")) =>
                   e.name \in Range(SavedNames)
            /\ (\E m \in 1..k : ~cfg.search_params[m].is_list) =>
                   /\ e.name \notin Range(SavedNames)
                   /\ \A l \in 1..Len(log) : log[l].param # e.name
    /\ error = "AssertionError" =>
         /\ pc = "raised"
         /\ ~cfg.search_params[entry_idx].is_list

\* the assertion fails on the second entry after the table of the first was written
C10_Witness ==
    /\ error = "AssertionError"
    /\ entry_idx = 2
    /\ Len(saved) = 1
    /\ saved[1].param = cfg.search_params[1].name
    /\ TableRows(saved[1].table) = 2

\* C11: in "threshold" mode no model inference occurs: for every candidate value
\* and dataset row predict_density_map is not called; the one call made is the
\* clustering of the loaded density map at the candidate threshold with
\* cfg["band_width"].
C11_ThresholdModeNoInference ==
    [][InRow("threshold") =>
          /\ NewCalls = {Clustering(cfg.band_width, patterns[value_idx])}
          /\ Len(calls') = Len(calls) + 1]_vars

\* the second candidate threshold has clustered a row after two rows of the first
C11_Witness ==
    /\ search_param = "threshold"
    /\ Len(dataset_path_df) = 2
    /\ patterns = <<2, 1>>
    /\ calls = <<Clustering(25, 2), Clustering(25, 2), Clustering(25, 1)>>

\* C12: in "prediction_grid" mode the candidate value overrides
\* skip_pixel_interval in a copy of the config only: the caller's cfg never
\* changes, and the inference of every row is given skip_pixel_interval = the
\* current candidate value.
C12_GridOverrideInCopy ==
    [][/\ cfg' = cfg
       /\ InRow("prediction_grid") =>
            /\ Inference([skip_pixel_interval |-> patterns[value_idx]]) \in NewCalls
            /\ \A c \in NewCalls : c.fn = "predict_density_map" =>
                   c.skip_pixel_interval = patterns[value_idx]]_vars

\* inference has run under both candidate values and cfg still has its own spacing
C12_Witness ==
    /\ search_param = "prediction_grid"
    /\ patterns = <<2, 1>>
    /\ cfg.skip_pixel_interval = 15
    /\ \E i, j \in 1..Len(calls) :
         /\ i < j
         /\ calls[i] = Inference([skip_pixel_interval |-> 2])
         /\ calls[j] = Inference([skip_pixel_interval |-> 1])

PerImageLists ==
    <<params_store.calculation_time_list, params_store.accuracy_list,
      params_store.precision_list, params_store.recall_list, params_store.f_measure_list>>

\* C18: per-value accumulator isolation: in the row loop of a candidate value
\* each of the five per-image lists holds one entry per row done under that
\* value, so at store_percentile_results each holds exactly one entry per
\* dataset row and nothing of an earlier candidate value.
C18_AccumulatorIsolation ==
    pc = "row" =>
        \A k \in 1..5 :
            /\ Len(PerImageLists[k]) = row_idx - 1
            /\ Finalizing => Len(PerImageLists[k]) = Len(dataset_path_df)

\* the second candidate value is about to be finalized over a two-row dataset
C18_Witness ==
    /\ Finalizing
    /\ value_idx = 2
    /\ Len(dataset_path_df) = 2
    /\ \A k \in 1..5 : Len(PerImageLists[k]) = 2

\* C19: persistence ordering: the table of a search run is written at most
\* once, after every candidate value has been finalized, each after every
\* dataset row; a run that fails on a row (or anywhere else) has written no
\* table, partial or otherwise, for its parameter.
C19_PersistenceOrdering ==
    [][/\ saved' # saved =>
            /\ pc = "value" /\ value_idx > Len(patterns)
            /\ search_param \notin Range(SavedNames)
            /\ saved' = Append(saved, saved'[Len(saved')])
            /\ saved'[Len(saved')].param = search_param
            /\ TableRows(saved'[Len(saved')].table) = Len(patterns)
       /\ value_idx' = value_idx + 1 =>
            /\ pc = "row" /\ row_idx > Len(dataset_path_df)
            /\ Len(params_store.accuracy_list) = Len(dataset_path_df)
       /\ pc' = "raised" =>
            cfg.search_params[entry_idx'].name \notin Range(SavedNames')]_vars

\* the second entry fails on a row of its second candidate value: the table of
\* the first entry is there, none of the second
C19_Witness ==
    /\ pc = "raised"
    /\ error = "ZeroDivisionError"
    /\ entry_idx = 2
    /\ value_idx = 2
    /\ SavedNames = <<cfg.search_params[1].name>>

\* C22: for an unrecognized name search never writes a result table and never
\* finalizes a result row, whatever the dataset and the candidate list, the
\* empty dataset and the empty list included.
C22_UnrecognizedNeverPersists ==
    /\ \A i \in 1..Len(saved) : Recognized(saved[i].param)
    /\ (pc \in {"value", "row"} /\ ~Recognized(search_param)) =>
          \A c \in DOMAIN params_store.result_dictlist :
              c \notin {"parameter", "sample_number"} =>
                  params_store.result_dictlist[c] = <<>>

====
